---- MODULE Spec2Model ----
(***************************************************************************)
(* easySql (src/easySql.py): the schema-driven CRUD engine.                *)
(*                                                                         *)
(*   DatabaseManager  the SQLite store, the query executor, the statement  *)
(*                    synthesizer and the history recorder                 *)
(*   TableModel       the grid state (viewer_model, console_model)         *)
(*   MainWindow       the handlers that drive both                         *)
(*                                                                         *)
(* Two specifications are given.  Spec runs the MainWindow handlers of the *)
(* viewer and console tabs, so the grid is only ever in a state the        *)
(* application can put it in.  SpecDb calls the public methods of          *)
(* DatabaseManager directly with bounded arguments.                        *)
(*                                                                         *)
(* Reductions.  Of the three sample tables only students is kept, with the *)
(* columns student_id, name and age and the first row of students_data.    *)
(* executed_at (a wall-clock timestamp) is not stored in history entries.  *)
(* Python list indexes are 1-based here; 0 stands for an index of None.    *)
(***************************************************************************)
EXTENDS Integers, Sequences, FiniteSets, TLC

VARIABLES
    db,             \* MainWindow.db: the DatabaseManager and its SQLite file
    viewer_model,   \* MainWindow.viewer_model: the TableModel of the viewer tab
    console_model,  \* MainWindow.console_model: the TableModel of the console tab
    table_combo,    \* MainWindow.table_combo: its items; the first is current
    currentTab,     \* MainWindow.tabs.currentIndex()
    emitted,        \* sql_generated emissions of the latest TableModel.setData
    call,           \* the latest operation and its arguments
    ret             \* what the latest operation returned

vars == <<db, viewer_model, console_model, table_combo, currentTab,
          emitted, call, ret>>

(***************************************************************************)
(* Bounds                                                                  *)
(***************************************************************************)
\* query_history rows ever written (the AUTOINCREMENT counter stops here)
MaxHistory == 3
\* largest student_id the store hands out
MaxId == 2

(***************************************************************************)
(* Values: Python None / int / str as stored by SQLite                     *)
(***************************************************************************)
None == [tag |-> "null", n |-> 0, s |-> ""]
IntVal(i) == [tag |-> "int", n |-> i, s |-> ""]
RealVal(t) == [tag |-> "real", n |-> t, s |-> ""]
TextVal(x) == [tag |-> "text", n |-> 0, s |-> x]

\* str(value); a real is kept in tenths
Str(v) ==
    CASE v.tag = "null" -> "None"
      [] v.tag = "int"  -> ToString(v.n)
      [] v.tag = "real" -> ToString(v.n \div 10) \o "." \o ToString(v.n % 10)
      [] OTHER          -> v.s

\* a string attribute that is None in Python
NoName == "<None>"

Min(a, b) == IF a < b THEN a ELSE b

RECURSIVE Join(_, _)
\* sep.join(strs)
Join(strs, sep) ==
    IF strs = <<>> THEN ""
    ELSE IF Len(strs) = 1 THEN strs[1]
    ELSE strs[1] \o sep \o Join(Tail(strs), sep)

\* list.index(x), 1-based; 0 when x is not in the list (ValueError)
IndexOf(seq, x) ==
    IF \E i \in 1..Len(seq) : seq[i] = x
    THEN CHOOSE i \in 1..Len(seq) : seq[i] = x /\ \A j \in 1..(i - 1) : seq[j] # x
    ELSE 0

(***************************************************************************)
(* Schema and sample data                                                  *)
(***************************************************************************)
Column(cid, name, type, notnull, pk) ==
    [cid |-> cid, name |-> name, type |-> type, notnull |-> notnull,
     default |-> None, pk |-> pk]

\* CREATE TABLE IF NOT EXISTS students (...), as PRAGMA table_info reports it
students_schema ==
    << Column(0, "student_id", "INTEGER", 0, 1),
       Column(1, "name", "TEXT", 1, 0),
       Column(2, "age", "INTEGER", 0, 0) >>

students_data == << <<IntVal(1), TextVal("Alice"), IntVal(20)>> >>

\* students as the console of an earlier session created it:
\* CREATE TABLE students (student_id INTEGER, name TEXT NOT NULL, age INTEGER)
nopk_schema ==
    << Column(0, "student_id", "INTEGER", 0, 0),
       Column(1, "name", "TEXT", 1, 0),
       Column(2, "age", "INTEGER", 0, 0) >>

\* ... (student_id INTEGER, name TEXT NOT NULL, age INTEGER,
\*      PRIMARY KEY (student_id, name))
composite_schema ==
    << Column(0, "student_id", "INTEGER", 0, 1),
       Column(1, "name", "TEXT", 1, 2),
       Column(2, "age", "INTEGER", 0, 0) >>

\* two rows that share the first key column
shared_key_data ==
    << <<IntVal(1), TextVal("Alice"), IntVal(20)>>,
       <<IntVal(1), TextVal("Bob"), IntVal(22)>> >>

UserTables == {"students"}

\* a table the learner creates from the console:
\* CREATE TABLE sqlitex (a INTEGER PRIMARY KEY, b TEXT)
ConsoleTables == {"sqlitex"}

sqlitex_schema ==
    << Column(0, "a", "INTEGER", 0, 1),
       Column(1, "b", "TEXT", 0, 0) >>

\* frozen: the table carries BEFORE INSERT and BEFORE DELETE triggers that
\* RAISE(ABORT, 'students is frozen'), created from the console
NoTable == [exists |-> FALSE, schema |-> <<>>, rows |-> <<>>, frozen |-> FALSE]

Frozen(t) == t \o " is frozen"

ColumnNames(schema) == [i \in 1..Len(schema) |-> schema[i].name]

\* str.upper() on a declared type
TypeUpper(column_type) ==
    CASE column_type = "integer" -> "INTEGER"
      [] column_type = "real" -> "REAL"
      [] OTHER -> column_type

(***************************************************************************)
(* The SQLite store behind self.cursor.execute                             *)
(***************************************************************************)
\* the outcome of one statement: ok, or the sqlite3.Error text; the store
\* after it; whether cursor.description is set; the result set; rowcount
\* A statement that is not a query leaves its work uncommitted until the
\* next conn.commit().
Ran(d, described, columns, rows, rowcount) ==
    [ok |-> TRUE, error |-> "",
     db |-> [d EXCEPT !.rowcount = rowcount,
                      !.uncommitted = @ \/ ~described],
     described |-> described, columns |-> columns, rows |-> rows]

Raised(d, error) ==
    [ok |-> FALSE, error |-> error, db |-> d,
     described |-> FALSE, columns |-> <<>>, rows |-> <<>>]

\* a statement that raised after part of its work was done (ON CONFLICT FAIL
\* keeps the rows changed before the conflict)
RaisedAfter(d, error) ==
    [ok |-> FALSE, error |-> error, db |-> [d EXCEPT !.uncommitted = TRUE],
     described |-> FALSE, columns |-> <<>>, rows |-> <<>>]

\* self.conn.commit()
commit(d) == [d EXCEPT !.uncommitted = FALSE]

NoSuchTable(t) == "no such table: " \o t

(***************************************************************************)
(* Free-form statements.  A text is leading whitespace, a first word as    *)
(* typed, and the rest; stmt is what SQLite parses it to.                  *)
(***************************************************************************)
Query(ws, kw, rest, stmt) == [ws |-> ws, kw |-> kw, rest |-> rest, stmt |-> stmt]

Queries ==
    { Query("  ", "select", " name from students", "select_name"),
      Query("", "PRAGMA", " table_info(students)", "table_info"),
      Query("", "DELETE", " FROM students", "delete_students"),
      Query("", "DROP", " TABLE students", "drop_students"),
      Query("", "DELETE", " FROM query_history", "delete_history"),
      Query("", "UPDATE", " OR FAIL students SET age = 21, student_id = 1",
            "update_or_fail") }

\* the console statement that creates a table of the learner's own
CreateQueries ==
    { Query("", "CREATE", " TABLE sqlitex (a INTEGER PRIMARY KEY, b TEXT)",
            "create_sqlitex") }

QueryText(q) == q.ws \o q.kw \o q.rest

\* str.strip() on a statement text
Strip(q) == [q EXCEPT !.ws = ""]

\* str.upper() on the first word
Upper(w) == IF w = "select" THEN "SELECT" ELSE w

\* cursor.execute(query) for a free-form statement
SqliteExecute(d, stmt) ==
    LET t == d.tables["students"] IN
    CASE stmt = "select_name" ->
            IF t.exists
            THEN Ran(d, TRUE, <<"name">>,
                     [i \in 1..Len(t.rows) |-> <<t.rows[i][2]>>], -1)
            ELSE Raised(d, NoSuchTable("students"))
      [] stmt = "table_info" ->
            Ran(d, TRUE, <<"cid", "name", "type", "notnull", "dflt_value", "pk">>,
                <<>>, -1)
      [] stmt = "delete_students" ->
            IF t.exists /\ t.frozen /\ t.rows # <<>>
            THEN Raised(d, Frozen("students"))
            ELSE IF t.exists
            THEN Ran([d EXCEPT !.tables["students"].rows = <<>>],
                     FALSE, <<>>, <<>>, Len(t.rows))
            ELSE Raised(d, NoSuchTable("students"))
      [] stmt = "drop_students" ->
            IF t.exists
            THEN Ran([d EXCEPT !.tables["students"] = NoTable],
                     FALSE, <<>>, <<>>, -1)
            ELSE Raised(d, NoSuchTable("students"))
      [] stmt = "create_sqlitex" ->
            IF d.tables["sqlitex"].exists
            THEN Raised(d, "table sqlitex already exists")
            ELSE Ran([d EXCEPT !.tables["sqlitex"] =
                         [exists |-> TRUE, schema |-> sqlitex_schema,
                          rows |-> <<>>, frozen |-> FALSE]],
                     FALSE, <<>>, <<>>, -1)
      [] stmt = "delete_history" ->
            Ran([d EXCEPT !.query_history = <<>>],
                FALSE, <<>>, <<>>, Len(d.query_history))
      [] stmt = "update_or_fail" ->
            \* rows are visited in rowid order; the first one takes key 1,
            \* the second one then violates the primary key
            LET first == [d EXCEPT !.tables["students"].rows[1] =
                             [@ EXCEPT ![1] = IntVal(1), ![3] = IntVal(21)]]
            IN  IF ~t.exists THEN Raised(d, NoSuchTable("students"))
                ELSE IF t.rows = <<>> THEN Ran(d, FALSE, <<>>, <<>>, 0)
                ELSE IF Len(t.rows) = 1 THEN Ran(first, FALSE, <<>>, <<>>, 1)
                ELSE RaisedAfter(first,
                                 "UNIQUE constraint failed: students.student_id")

(***************************************************************************)
(* DatabaseManager                                                         *)
(***************************************************************************)
NoResult ==
    [success |-> FALSE, kind |-> "none", columns |-> <<>>, rows |-> <<>>,
     message |-> "", error |-> "", sql |-> "", rowid |-> 0]

\* {'success': True, 'columns': columns, 'rows': rows}
RowsResult(columns, rows) ==
    [NoResult EXCEPT !.success = TRUE, !.kind = "rows",
                     !.columns = columns, !.rows = rows]

\* {'success': True, 'message': message}
MessageResult(message) ==
    [NoResult EXCEPT !.success = TRUE, !.kind = "message", !.message = message]

\* {'success': False, 'error': error}
ErrorResult(error) ==
    [NoResult EXCEPT !.kind = "error", !.error = error]

HistoryEntry(id, query, success, error) ==
    [id |-> id, query_text |-> query, success |-> success, error_message |-> error]

\* _save_query_history without its conn.commit()
save_query_history_uncommitted(d, query, success, error) ==
    LET id == d.sqlite_sequence + 1 IN
    [d EXCEPT !.query_history = Append(@, HistoryEntry(id, query, success, error)),
              !.sqlite_sequence = id,
              !.rowcount = 1,
              !.lastrowid = id,
              !.uncommitted = TRUE]

\* _save_query_history: INSERT INTO query_history ...; commit.  The INSERT
\* runs on self.cursor, so it leaves rowcount = 1 and lastrowid = the new id.
save_query_history(d, query, success, error) ==
    LET id == d.sqlite_sequence + 1 IN
    commit([d EXCEPT !.query_history = Append(@, HistoryEntry(id, query, success, error)),
                     !.sqlite_sequence = id,
                     !.rowcount = 1,
                     !.lastrowid = id,
                     !.uncommitted = TRUE])

\* the classification without upper(): query.strip().startswith('SELECT')
StartsWithSelect_case_sensitive(q) == Strip(q).ws = "" /\ Strip(q).kw = "SELECT"

\* query.strip().upper().startswith('SELECT')
StartsWithSelect(q) == Strip(q).ws = "" /\ Upper(Strip(q).kw) = "SELECT"

execute_query(d, q) ==
    LET r == SqliteExecute(d, q.stmt)
        text == QueryText(q)
    IN  IF ~r.ok
        THEN \* no rollback: the history INSERT's commit keeps what r left
             [db |-> save_query_history(r.db, text, 0, r.error),
              ret |-> ErrorResult(r.error)]
        ELSE IF StartsWithSelect(q) /\ r.described
        THEN [db |-> save_query_history(r.db, text, 1, NoName),
              ret |-> RowsResult(r.columns, r.rows)]
        ELSE LET d2 == save_query_history(commit(r.db), text, 1, NoName) IN
             [db |-> d2,
              ret |-> MessageResult("Query executed successfully. Rows affected: "
                                    \o ToString(d2.rowcount))]

RECURSIVE OrderByIdDesc(_)
\* ORDER BY id DESC
OrderByIdDesc(rows) ==
    IF rows = <<>> THEN <<>>
    ELSE LET m == CHOOSE i \in 1..Len(rows) :
                      \A j \in 1..Len(rows) : rows[j].id <= rows[i].id
         IN <<rows[m]>> \o
            OrderByIdDesc([k \in 1..(Len(rows) - 1) |->
                              IF k < m THEN rows[k] ELSE rows[k + 1]])

\* SELECT query_text, executed_at, success, error_message
HistoryTuple(e) ==
    [query_text |-> e.query_text, success |-> e.success,
     error_message |-> e.error_message]

\* get_query_history with the rows in ascending id order
get_query_history_ascending(d, limit) ==
    LET sorted == OrderByIdDesc(d.query_history)
        n == Len(sorted)
        kept == IF limit < 0 THEN n ELSE Min(limit, n)
    IN  [i \in 1..kept |-> HistoryTuple(sorted[n + 1 - i])]

\* get_query_history: ... ORDER BY id DESC LIMIT ?  (a negative LIMIT is no limit)
get_query_history(d, limit) ==
    LET sorted == OrderByIdDesc(d.query_history)
        kept == IF limit < 0 THEN Len(sorted) ELSE Min(limit, Len(sorted))
    IN  [i \in 1..kept |-> HistoryTuple(sorted[i])]

get_table_data(d, table_name) ==
    IF d.tables[table_name].exists
    THEN RowsResult(ColumnNames(d.tables[table_name].schema), d.tables[table_name].rows)
    ELSE ErrorResult(NoSuchTable(table_name))

\* sqlite_master, in creation order (sqlite_sequence belongs to the
\* AUTOINCREMENT key of query_history)
SqliteMaster(d) ==
    (IF d.tables["students"].exists THEN <<"students">> ELSE <<>>)
    \o <<"lesson_progress", "query_history", "sqlite_sequence">>
    \o (IF d.tables["sqlitex"].exists THEN <<"sqlitex">> ELSE <<>>)

\* name LIKE 'sqlite_%' for the names of this model: `_` stands for any one
\* character and `%` for any run of characters
LikeSqlite(name) == name \in {"sqlite_sequence", "sqlitex"}

get_table_names(d) ==
    SelectSeq(SqliteMaster(d),
              LAMBDA name : /\ ~LikeSqlite(name)
                            /\ name \notin {"lesson_progress", "query_history"})

\* mark_lesson_complete: INSERT OR REPLACE INTO lesson_progress ...; commit
mark_lesson_complete(d, lesson_id) ==
    commit([d EXCEPT !.lesson_progress = @ \cup {lesson_id},
                     !.rowcount = 1,
                     !.uncommitted = TRUE])

\* reset_lesson_progress: DELETE FROM lesson_progress; commit
reset_lesson_progress(d) ==
    commit([d EXCEPT !.lesson_progress = {},
                     !.rowcount = Cardinality(d.lesson_progress),
                     !.uncommitted = TRUE])

\* initialize_database: CREATE TABLE IF NOT EXISTS ...; populate when empty
initialize_database(d) ==
    LET created == IF d.tables["students"].exists THEN d
                   ELSE [d EXCEPT !.tables["students"] =
                            [exists |-> TRUE, schema |-> students_schema,
                             rows |-> <<>>, frozen |-> FALSE]]
    IN  IF Len(created.tables["students"].rows) = 0
        THEN commit([created EXCEPT !.tables["students"].rows = students_data,
                                    !.rowcount = Len(students_data),
                                    !.uncommitted = TRUE])
        ELSE commit(created)

\* reset_database without the DROP TABLE script
reset_database_no_drop(d) ==
    initialize_database(commit(d))

\* reset_database: DROP TABLE IF EXISTS students, ..., lesson_progress;
\* query_history is kept
reset_database(d) ==
    initialize_database(commit([d EXCEPT !.tables["students"] = NoTable,
                                         !.lesson_progress = {}]))

\* get_table_schema: PRAGMA table_info(table_name), empty for a missing table
get_table_schema(d, table_name) ==
    [success |-> TRUE, error |-> "", schema |-> d.tables[table_name].schema]

get_primary_key(d, table_name) ==
    LET schema_result == get_table_schema(d, table_name)
        pk_columns == SelectSeq(schema_result.schema, LAMBDA col : col.pk > 0)
    IN  IF pk_columns = <<>>
        THEN [success |-> FALSE, error |-> "No primary key found",
              pk_column |-> NoName, pk_columns |-> <<>>]
        ELSE [success |-> TRUE, error |-> "",
              pk_column |-> pk_columns[1].name,
              pk_columns |-> ColumnNames(pk_columns)]

(***************************************************************************)
(* The SQLite store behind the parameterized UPDATE, INSERT and DELETE     *)
(***************************************************************************)
\* text that SQLite reads as an integer
IntLiterals == 0..25
IsIntLiteral(x) == \E i \in IntLiterals : ToString(i) = x
IntOf(x) == CHOOSE i \in IntLiterals : ToString(i) = x

\* column affinity applied to a bound value
Affinity(type, v) ==
    CASE type = "TEXT" /\ v.tag \in {"int", "real"} -> TextVal(Str(v))
      [] type = "INTEGER" /\ v.tag = "text" /\ IsIntLiteral(v.s) -> IntVal(IntOf(v.s))
      [] OTHER -> v

\* WHERE pk_column = ? (a NULL never compares equal)
Matches(row, pk_index, pk_value) == pk_value # None /\ row[pk_index] = pk_value

\* the PRIMARY KEY columns of a schema
PkColumns(schema) == {i \in 1..Len(schema) : schema[i].pk > 0}

\* two rows agree on every PRIMARY KEY column (NULLs never agree)
KeyClash(schema, rows) ==
    /\ PkColumns(schema) # {}
    /\ \E i, j \in 1..Len(rows) :
          /\ i < j
          /\ \A c \in PkColumns(schema) : rows[i][c] # None /\ rows[i][c] = rows[j][c]

\* "UNIQUE constraint failed: t.a, t.b"
UniqueFailed(table_name, schema) ==
    "UNIQUE constraint failed: "
    \o Join([i \in 1..Len(SelectSeq(schema, LAMBDA col : col.pk > 0)) |->
                table_name \o "." \o SelectSeq(schema, LAMBDA col : col.pk > 0)[i].name],
            ", ")

\* UPDATE table SET column = ? WHERE pk_column = ?
SqliteUpdate(d, table_name, column_name, new_value, pk_column, pk_value) ==
    LET t == d.tables[table_name]
        names == ColumnNames(t.schema)
        c == IndexOf(names, column_name)
        k == IndexOf(names, pk_column)
        hit == {i \in 1..Len(t.rows) : Matches(t.rows[i], k, pk_value)}
        updated == [i \in 1..Len(t.rows) |->
                       IF i \in hit
                       THEN [t.rows[i] EXCEPT ![c] = Affinity(t.schema[c].type, new_value)]
                       ELSE t.rows[i]]
    IN  IF ~t.exists THEN Raised(d, NoSuchTable(table_name))
        ELSE IF c = 0 THEN Raised(d, "no such column: " \o column_name)
        ELSE IF k = 0 THEN Raised(d, "no such column: " \o pk_column)
        ELSE IF hit # {} /\ t.schema[c].notnull = 1 /\ new_value = None
        THEN Raised(d, "NOT NULL constraint failed: " \o table_name \o "."
                       \o column_name)
        ELSE IF c \in PkColumns(t.schema) /\ KeyClash(t.schema, updated)
        THEN Raised(d, UniqueFailed(table_name, t.schema))
        ELSE Ran([d EXCEPT !.tables[table_name].rows = updated],
                 FALSE, <<>>, <<>>, Cardinality(hit))

\* the rowid an INTEGER PRIMARY KEY gets when NULL is inserted
NextRowid(rows, k) ==
    IF rows = <<>> THEN 1
    ELSE 1 + (CHOOSE m \in {rows[i][k].n : i \in 1..Len(rows)} :
                  \A i \in 1..Len(rows) : rows[i][k].n <= m)

\* the column that is the table's rowid: a single INTEGER PRIMARY KEY (0 if none)
RowidAlias(schema) ==
    LET pks == PkColumns(schema) IN
    IF Cardinality(pks) = 1 /\ TypeUpper(schema[CHOOSE i \in pks : TRUE].type) = "INTEGER"
    THEN CHOOSE i \in pks : TRUE
    ELSE 0

\* INSERT INTO table (columns) VALUES (?, ...), rows kept in rowid order
SqliteInsert(d, table_name, columns, values) ==
    LET t == d.tables[table_name]
        k == RowidAlias(t.schema)
        row == [i \in 1..Len(values) |->
                   IF i = k /\ values[i] = None
                   THEN IntVal(NextRowid(t.rows, k))
                   ELSE Affinity(t.schema[i].type, values[i])]
        before == IF k = 0 THEN t.rows
                  ELSE SelectSeq(t.rows, LAMBDA r : r[k].n < row[k].n)
        after == IF k = 0 THEN <<>>
                 ELSE SelectSeq(t.rows, LAMBDA r : r[k].n > row[k].n)
    IN  IF columns = <<>> THEN Raised(d, "near \")\": syntax error")
        ELSE IF Len(values) # Len(columns)
        THEN Raised(d, "Incorrect number of bindings supplied.")
        ELSE IF t.frozen THEN Raised(d, Frozen(table_name))
        ELSE IF \E i \in 1..Len(values) :
                    i # k /\ t.schema[i].notnull = 1 /\ values[i] = None
        THEN LET i == CHOOSE i \in 1..Len(values) :
                          i # k /\ t.schema[i].notnull = 1 /\ values[i] = None
             IN Raised(d, "NOT NULL constraint failed: " \o table_name \o "."
                          \o columns[i])
        ELSE IF KeyClash(t.schema, t.rows \o <<row>>)
        THEN Raised(d, UniqueFailed(table_name, t.schema))
        ELSE [Ran([d EXCEPT !.tables[table_name].rows = before \o <<row>> \o after],
                  FALSE, <<>>, <<>>, 1)
              EXCEPT !.db.lastrowid = IF k = 0 THEN Len(t.rows) + 1 ELSE row[k].n]

\* DELETE FROM table WHERE pk_column = ?
SqliteDelete(d, table_name, pk_column, pk_value) ==
    LET t == d.tables[table_name]
        k == IndexOf(ColumnNames(t.schema), pk_column)
    IN  IF ~t.exists THEN Raised(d, NoSuchTable(table_name))
        ELSE IF k = 0 THEN Raised(d, "no such column: " \o pk_column)
        ELSE IF t.frozen /\ \E i \in 1..Len(t.rows) : Matches(t.rows[i], k, pk_value)
        THEN Raised(d, Frozen(table_name))
        ELSE Ran([d EXCEPT !.tables[table_name].rows =
                     SelectSeq(t.rows, LAMBDA r : ~Matches(r, k, pk_value))],
                 FALSE, <<>>, <<>>,
                 Cardinality({i \in 1..Len(t.rows) : Matches(t.rows[i], k, pk_value)}))

(***************************************************************************)
(* DatabaseManager: the synthesized single-row statements                  *)
(***************************************************************************)
UpdateDisplaySql(table_name, pk_column, pk_value, column_name, new_value) ==
    "UPDATE " \o table_name \o " SET " \o column_name \o " = '" \o Str(new_value)
    \o "' WHERE " \o pk_column \o " = " \o Str(pk_value)

update_cell(d, table_name, pk_column, pk_value, column_name, new_value) ==
    LET r == SqliteUpdate(d, table_name, column_name, new_value, pk_column, pk_value)
        display_sql == UpdateDisplaySql(table_name, pk_column, pk_value,
                                        column_name, new_value)
    IN  IF r.ok
        THEN [db |-> save_query_history(commit(r.db), display_sql, 1, NoName),
              ret |-> [MessageResult("Cell updated successfully")
                          EXCEPT !.sql = display_sql]]
        ELSE [db |-> save_query_history(d, display_sql, 0, r.error),
              ret |-> [ErrorResult(r.error) EXCEPT !.sql = display_sql]]

\* the display form of insert_row with None formatted like any other value
InsertDisplaySql_quoted_none(table_name, columns, column_values) ==
    "INSERT INTO " \o table_name \o " (" \o Join(columns, ", ") \o ") VALUES ("
    \o Join([i \in 1..Len(column_values) |-> "'" \o Str(column_values[i]) \o "'"],
            ", ")
    \o ")"

InsertDisplaySql(table_name, columns, column_values) ==
    "INSERT INTO " \o table_name \o " (" \o Join(columns, ", ") \o ") VALUES ("
    \o Join([i \in 1..Len(column_values) |->
                IF column_values[i] # None
                THEN "'" \o Str(column_values[i]) \o "'"
                ELSE "NULL"], ", ")
    \o ")"

insert_row(d, table_name, column_values) ==
    LET schema_result == get_table_schema(d, table_name)
        columns == ColumnNames(schema_result.schema)
        r == SqliteInsert(d, table_name, columns, column_values)
        display_sql == InsertDisplaySql(table_name, columns, column_values)
    IN  IF r.ok
        THEN LET d2 == save_query_history(commit(r.db), display_sql, 1, NoName) IN
             [db |-> d2,
              ret |-> [MessageResult("Row inserted successfully")
                          EXCEPT !.sql = display_sql, !.rowid = d2.lastrowid]]
        ELSE [db |-> d, ret |-> ErrorResult(r.error)]

DeleteDisplaySql(table_name, pk_column, pk_value) ==
    "DELETE FROM " \o table_name \o " WHERE " \o pk_column \o " = " \o Str(pk_value)

delete_row(d, table_name, pk_column, pk_value) ==
    LET r == SqliteDelete(d, table_name, pk_column, pk_value)
        display_sql == DeleteDisplaySql(table_name, pk_column, pk_value)
    IN  IF r.ok
        THEN [db |-> save_query_history(commit(r.db), display_sql, 1, NoName),
              ret |-> [MessageResult("Row deleted successfully")
                          EXCEPT !.sql = display_sql]]
        ELSE [db |-> save_query_history(d, display_sql, 0, r.error),
              ret |-> [ErrorResult(r.error) EXCEPT !.sql = display_sql]]

(***************************************************************************)
(* TableModel                                                              *)
(***************************************************************************)
\* what the cell editor can hand to setData
RawInputs == {"", "21", "abc"}

\* TableModel(): no data, no database, no binding
TableModel ==
    [data |-> <<>>, columns |-> <<>>, db |-> FALSE, table_name |-> NoName,
     pk_column |-> NoName, pk_index |-> 0, schema |-> <<>>]

\* self._schema.get(column_name, {}), with the defaults the callers read
SchemaGet(schema, column_name) ==
    IF \E i \in 1..Len(schema) : schema[i].name = column_name
    THEN schema[CHOOSE i \in 1..Len(schema) : schema[i].name = column_name]
    ELSE [cid |-> -1, name |-> NoName, type |-> "TEXT", notnull |-> 0,
          default |-> None, pk |-> 0]

\* marker in column_type (substring), for the declared types of this model
Contains(marker, column_type) ==
    \/ marker = "INT" /\ column_type \in {"INTEGER", "INT", "POINT"}
    \/ marker = column_type /\ marker \in {"REAL", "FLOAT", "DOUBLE"}

\* int(value) succeeds
IntParses(value) == value \in {"21", "7"}
\* float(value) succeeds; FloatOf is in tenths
FloatParses(value) == value \in {"21", "7", "2.5"}
FloatOf(value) == CASE value = "21" -> 210 [] value = "7" -> 70 [] OTHER -> 25

\* _validate_value that looks at the declared type before the empty input
validate_value_type_first(value, column_schema) ==
    LET column_type == TypeUpper(column_schema.type) IN
    IF Contains("INT", column_type)
    THEN IF IntParses(value)
         THEN [value |-> IntVal(IntOf(value)), error |-> NoName]
         ELSE [value |-> None,
               error |-> "Invalid INTEGER value: '" \o value \o "'"]
    ELSE IF Contains("REAL", column_type)
            \/ Contains("FLOAT", column_type)
            \/ Contains("DOUBLE", column_type)
    THEN IF FloatParses(value)
         THEN [value |-> RealVal(FloatOf(value)), error |-> NoName]
         ELSE [value |-> None,
               error |-> "Invalid REAL/FLOAT value: '" \o value \o "'"]
    ELSE IF value = "" \/ value = NoName
    THEN IF column_schema.notnull = 1
         THEN [value |-> None, error |-> "Column cannot be NULL"]
         ELSE [value |-> None, error |-> NoName]
    ELSE [value |-> TextVal(value), error |-> NoName]

\* _validate_value: (validated value, error); error is NoName for None
validate_value(value, column_schema) ==
    LET column_type == TypeUpper(column_schema.type) IN
    IF value = "" \/ value = NoName
    THEN IF column_schema.notnull = 1
         THEN [value |-> None, error |-> "Column cannot be NULL"]
         ELSE [value |-> None, error |-> NoName]
    ELSE IF Contains("INT", column_type)
    THEN IF IntParses(value)
         THEN [value |-> IntVal(IntOf(value)), error |-> NoName]
         ELSE [value |-> None,
               error |-> "Invalid INTEGER value: '" \o value \o "'"]
    ELSE IF Contains("REAL", column_type)
            \/ Contains("FLOAT", column_type)
            \/ Contains("DOUBLE", column_type)
    THEN IF FloatParses(value)
         THEN [value |-> RealVal(FloatOf(value)), error |-> NoName]
         ELSE [value |-> None,
               error |-> "Invalid REAL/FLOAT value: '" \o value \o "'"]
    ELSE [value |-> TextVal(value), error |-> NoName]

\* flags without the test for the key column
flags_key_editable(m, col) ==
    m.db /\ m.table_name # NoName /\ m.pk_column # NoName

\* flags: is the cell editable
flags(m, col) ==
    IF m.db /\ m.table_name # NoName /\ m.pk_column # NoName
    THEN LET pk_info == SchemaGet(m.schema, m.pk_column) IN
         ~(col = m.pk_index /\ TypeUpper(pk_info.type) = "INTEGER" /\ pk_info.pk = 1)
    ELSE FALSE

\* setData that overwrites the cell before the store has answered
setData_memory_first(m, d, row, col, value) ==
    LET rejected == [model |-> m, db |-> d, emitted |-> <<>>, ret |-> FALSE] IN
    IF ~m.db \/ m.table_name = NoName \/ m.pk_column = NoName THEN rejected
    ELSE
    LET old_value == m.data[row][col]
        column_name == m.columns[col]
    IN
    IF Str(old_value) = value THEN rejected
    ELSE
    LET pk_value == m.data[row][m.pk_index]
        column_schema == SchemaGet(m.schema, column_name)
        validated == validate_value(value, column_schema)
    IN
    IF validated.error # NoName
    THEN [rejected EXCEPT !.emitted = <<"ERROR: " \o validated.error>>]
    ELSE
    LET result == update_cell(d, m.table_name, m.pk_column, pk_value,
                              column_name, validated.value)
    IN
    IF result.ret.success
    THEN [model |-> [m EXCEPT !.data[row][col] = validated.value],
          db |-> result.db,
          emitted |-> <<result.ret.sql>>,
          ret |-> TRUE]
    ELSE [model |-> [m EXCEPT !.data[row][col] = validated.value],
          db |-> result.db,
          emitted |-> <<"ERROR: " \o result.ret.error>>,
          ret |-> FALSE]

\* setData that reports a validation error and carries on to the store
setData_unvalidated(m, d, row, col, value) ==
    LET rejected == [model |-> m, db |-> d, emitted |-> <<>>, ret |-> FALSE] IN
    IF ~m.db \/ m.table_name = NoName \/ m.pk_column = NoName THEN rejected
    ELSE
    LET old_value == m.data[row][col]
        column_name == m.columns[col]
    IN
    IF Str(old_value) = value THEN rejected
    ELSE
    LET pk_value == m.data[row][m.pk_index]
        column_schema == SchemaGet(m.schema, column_name)
        validated == validate_value(value, column_schema)
    IN
    LET result == update_cell(d, m.table_name, m.pk_column, pk_value,
                              column_name, validated.value)
    IN
    IF result.ret.success
    THEN [model |-> [m EXCEPT !.data[row][col] = validated.value],
          db |-> result.db,
          emitted |-> <<result.ret.sql>>,
          ret |-> TRUE]
    ELSE [model |-> m,
          db |-> result.db,
          emitted |-> <<"ERROR: " \o result.ret.error>>,
          ret |-> FALSE]

\* setData without the test for an unchanged value
setData_no_change_test(m, d, row, col, value) ==
    LET rejected == [model |-> m, db |-> d, emitted |-> <<>>, ret |-> FALSE] IN
    IF ~m.db \/ m.table_name = NoName \/ m.pk_column = NoName THEN rejected
    ELSE
    LET column_name == m.columns[col]
        pk_value == m.data[row][m.pk_index]
        column_schema == SchemaGet(m.schema, column_name)
        validated == validate_value(value, column_schema)
    IN
    IF validated.error # NoName
    THEN [rejected EXCEPT !.emitted = <<"ERROR: " \o validated.error>>]
    ELSE
    LET result == update_cell(d, m.table_name, m.pk_column, pk_value,
                              column_name, validated.value)
    IN
    IF result.ret.success
    THEN [model |-> [m EXCEPT !.data[row][col] = validated.value],
          db |-> result.db,
          emitted |-> <<result.ret.sql>>,
          ret |-> TRUE]
    ELSE [model |-> m,
          db |-> result.db,
          emitted |-> <<"ERROR: " \o result.ret.error>>,
          ret |-> FALSE]

\* setData: the model and store after the edit, the signals emitted, the
\* value returned
setData(m, d, row, col, value) ==
    LET rejected == [model |-> m, db |-> d, emitted |-> <<>>, ret |-> FALSE] IN
    IF ~m.db \/ m.table_name = NoName \/ m.pk_column = NoName THEN rejected
    ELSE
    LET old_value == m.data[row][col]
        column_name == m.columns[col]
    IN
    IF Str(old_value) = value THEN rejected
    ELSE
    LET pk_value == m.data[row][m.pk_index]
        column_schema == SchemaGet(m.schema, column_name)
        validated == validate_value(value, column_schema)
    IN
    IF validated.error # NoName
    THEN [rejected EXCEPT !.emitted = <<"ERROR: " \o validated.error>>]
    ELSE
    LET result == update_cell(d, m.table_name, m.pk_column, pk_value,
                              column_name, validated.value)
    IN
    IF result.ret.success
    THEN [model |-> [m EXCEPT !.data[row][col] = validated.value],
          db |-> result.db,
          emitted |-> <<result.ret.sql>>,
          ret |-> TRUE]
    ELSE [model |-> m,
          db |-> result.db,
          emitted |-> <<"ERROR: " \o result.ret.error>>,
          ret |-> FALSE]

\* update_data that adds the fetched rows to the rows it already holds
update_data_append(m, data, columns) ==
    [m EXCEPT !.data = @ \o data, !.columns = columns, !.table_name = NoName,
              !.pk_column = NoName, !.pk_index = 0, !.schema = <<>>]

\* update_data: new rows, binding cleared
update_data(m, data, columns) ==
    [m EXCEPT !.data = data, !.columns = columns, !.table_name = NoName,
              !.pk_column = NoName, !.pk_index = 0, !.schema = <<>>]

\* set_editable that takes the first column for the key when the table has none
set_editable_first_column(m, d, table_name) ==
    LET pk_result == get_primary_key(d, table_name)
        schema_result == get_table_schema(d, table_name)
        bound == IF pk_result.success
                 THEN [m EXCEPT !.db = TRUE, !.table_name = table_name,
                                !.pk_column = pk_result.pk_column,
                                !.pk_index = IndexOf(m.columns, pk_result.pk_column)]
                 ELSE [m EXCEPT !.db = TRUE, !.table_name = table_name,
                                !.pk_column = m.columns[1],
                                !.pk_index = 1]
    IN  [bound EXCEPT !.schema = schema_result.schema]

\* set_editable: bind to table_name
set_editable(m, d, table_name) ==
    LET pk_result == get_primary_key(d, table_name)
        schema_result == get_table_schema(d, table_name)
        bound == IF pk_result.success
                 THEN [m EXCEPT !.db = TRUE, !.table_name = table_name,
                                !.pk_column = pk_result.pk_column,
                                !.pk_index = IndexOf(m.columns, pk_result.pk_column)]
                 ELSE [m EXCEPT !.db = TRUE, !.table_name = table_name]
    IN  [bound EXCEPT !.schema = schema_result.schema]

(***************************************************************************)
(* MainWindow                                                              *)
(***************************************************************************)
\* tab indexes: Beginner, Viewer, Console (the Advanced tab is left out)
Tabs == {0, 2, 3}
LessonIds == {"SELECT_1"}

NoCall ==
    [op |-> "init", query |-> "", row |-> 0, col |-> 0, value |-> "", args |-> <<>>]
Call(op) == [NoCall EXCEPT !.op = op]

\* table_combo.currentText()
CurrentText(combo) == IF combo = <<>> THEN "" ELSE combo[1]

\* refresh_table_viewer: re-fetch the selected table and bind the grid to it
refresh_table_viewer(m, combo, d) ==
    LET table_name == CurrentText(combo) IN
    IF table_name = "" THEN m
    ELSE LET result == get_table_data(d, table_name) IN
         IF result.success
         THEN set_editable(update_data(m, result.rows, result.columns), d, table_name)
         ELSE m

\* update_table_list: clear() and addItems(); filling the empty combo box
\* selects its first item, and currentIndexChanged runs refresh_table_viewer
update_table_list(m, d) ==
    LET tables == get_table_names(d) IN
    [combo |-> tables,
     model |-> IF tables # <<>> THEN refresh_table_viewer(m, tables, d) ELSE m]

\* the user selects another tab; tabs.currentChanged runs on_tab_changed
on_tab_changed(index) ==
    /\ index # currentTab
    /\ currentTab' = index
    /\ IF index = 2
       THEN LET listed == update_table_list(viewer_model, db) IN
            /\ table_combo' = listed.combo
            /\ viewer_model' = IF listed.combo # <<>>
                               THEN refresh_table_viewer(listed.model, listed.combo, db)
                               ELSE listed.model
       ELSE UNCHANGED <<table_combo, viewer_model>>
    /\ call' = [Call("on_tab_changed") EXCEPT !.row = index]
    /\ ret' = NoResult
    /\ emitted' = <<>>
    /\ UNCHANGED <<db, console_model>>

\* execute_console_query: run the console text, show rows, reload the table list
execute_console_query(q) ==
    /\ currentTab = 3
    /\ db.sqlite_sequence < MaxHistory
    /\ LET query == Strip(q)
           result == execute_query(db, query)
           listed == update_table_list(viewer_model, result.db)
       IN  /\ db' = result.db
           /\ console_model' =
                  IF result.ret.success /\ result.ret.kind = "rows"
                  THEN update_data(console_model, result.ret.rows, result.ret.columns)
                  ELSE console_model
           /\ table_combo' = listed.combo
           /\ viewer_model' = listed.model
           /\ call' = [Call("execute_query") EXCEPT !.query = QueryText(query)]
           /\ ret' = result.ret
    /\ emitted' = <<>>
    /\ UNCHANGED currentTab

\* the cell editor of the viewer tab commits value into an editable cell
edit_cell(row, col, value) ==
    /\ currentTab = 2
    /\ db.sqlite_sequence < MaxHistory
    /\ flags(viewer_model, col)
    /\ LET done == setData(viewer_model, db, row, col, value) IN
       /\ viewer_model' = done.model
       /\ db' = done.db
       /\ emitted' = done.emitted
       /\ ret' = [NoResult EXCEPT !.success = done.ret, !.kind = "setData"]
    /\ call' = [Call("setData") EXCEPT !.row = row, !.col = col, !.value = value]
    /\ UNCHANGED <<console_model, table_combo, currentTab>>

\* add_table_row: the default value of one column
DefaultValue(col) ==
    IF col.pk = 1 /\ TypeUpper(col.type) = "INTEGER" THEN None
    ELSE IF col.default # None THEN col.default
    ELSE IF col.notnull = 0 THEN None
    ELSE IF Contains("INT", TypeUpper(col.type)) THEN IntVal(0)
    ELSE IF Contains("REAL", TypeUpper(col.type))
            \/ Contains("FLOAT", TypeUpper(col.type)) THEN RealVal(0)
    ELSE TextVal("")

\* add_table_row that appends the default row to the grid instead of
\* fetching the table again
add_table_row_local_append ==
    /\ currentTab = 2
    /\ db.sqlite_sequence < MaxHistory
    /\ LET table_name == CurrentText(table_combo) IN
       /\ table_name # ""
       /\ LET schema == get_table_schema(db, table_name).schema
              default_values == [i \in 1..Len(schema) |-> DefaultValue(schema[i])]
              result == insert_row(db, table_name, default_values)
          IN  /\ \A i \in 1..Len(result.db.tables[table_name].rows) :
                     result.db.tables[table_name].rows[i][1].n <= MaxId
              /\ db' = result.db
              /\ viewer_model' =
                     IF result.ret.success
                     THEN [viewer_model EXCEPT !.data = Append(@, default_values)]
                     ELSE viewer_model
              /\ ret' = result.ret
              /\ call' = [Call("insert_row") EXCEPT !.args = default_values]
    /\ emitted' = <<>>
    /\ UNCHANGED <<console_model, table_combo, currentTab>>

add_table_row ==
    /\ currentTab = 2
    /\ db.sqlite_sequence < MaxHistory
    /\ LET table_name == CurrentText(table_combo) IN
       /\ table_name # ""
       /\ LET schema == get_table_schema(db, table_name).schema
              default_values == [i \in 1..Len(schema) |-> DefaultValue(schema[i])]
              result == insert_row(db, table_name, default_values)
          IN  /\ \A i \in 1..Len(result.db.tables[table_name].rows) :
                     result.db.tables[table_name].rows[i][1].n <= MaxId
              /\ db' = result.db
              /\ viewer_model' =
                     IF result.ret.success
                     THEN refresh_table_viewer(viewer_model, table_combo, result.db)
                     ELSE viewer_model
              /\ ret' = result.ret
              /\ call' = [Call("insert_row") EXCEPT !.args = default_values]
    /\ emitted' = <<>>
    /\ UNCHANGED <<console_model, table_combo, currentTab>>

\* delete_table_row that takes the row out of the grid itself, whatever the
\* store answers
delete_table_row_local_remove(row) ==
    /\ currentTab = 2
    /\ db.sqlite_sequence < MaxHistory
    /\ LET table_name == CurrentText(table_combo)
           pk_result == get_primary_key(db, table_name)
       IN
       /\ table_name # ""
       /\ IF ~pk_result.success
          THEN /\ ret' = [NoResult EXCEPT !.kind = "error", !.error = pk_result.error]
               /\ UNCHANGED <<db, viewer_model>>
          ELSE LET pk_index == IndexOf(viewer_model.columns, pk_result.pk_column) IN
               IF pk_index = 0
               THEN /\ ret' = [NoResult EXCEPT !.kind = "error",
                                  !.error = "Could not get primary key value"]
                    /\ UNCHANGED <<db, viewer_model>>
               ELSE LET pk_value == viewer_model.data[row][pk_index]
                        result == delete_row(db, table_name, pk_result.pk_column, pk_value)
                    IN  /\ db' = result.db
                        /\ viewer_model' =
                               [viewer_model EXCEPT !.data =
                                   [i \in 1..(Len(@) - 1) |->
                                       IF i < row THEN @[i] ELSE @[i + 1]]]
                        /\ ret' = result.ret
    /\ call' = [Call("delete_row") EXCEPT !.row = row]
    /\ emitted' = <<>>
    /\ UNCHANGED <<console_model, table_combo, currentTab>>

\* delete_table_row with grid row `row` selected and the deletion confirmed
delete_table_row(row) ==
    /\ currentTab = 2
    /\ db.sqlite_sequence < MaxHistory
    /\ LET table_name == CurrentText(table_combo)
           pk_result == get_primary_key(db, table_name)
       IN
       /\ table_name # ""
       /\ IF ~pk_result.success
          THEN /\ ret' = [NoResult EXCEPT !.kind = "error", !.error = pk_result.error]
               /\ UNCHANGED <<db, viewer_model>>
          ELSE LET pk_index == IndexOf(viewer_model.columns, pk_result.pk_column) IN
               IF pk_index = 0
               THEN /\ ret' = [NoResult EXCEPT !.kind = "error",
                                  !.error = "Could not get primary key value"]
                    /\ UNCHANGED <<db, viewer_model>>
               ELSE LET pk_value == viewer_model.data[row][pk_index]
                        result == delete_row(db, table_name, pk_result.pk_column, pk_value)
                    IN  /\ db' = result.db
                        /\ viewer_model' =
                               IF result.ret.success
                               THEN refresh_table_viewer(viewer_model, table_combo, result.db)
                               ELSE viewer_model
                        /\ ret' = result.ret
    /\ call' = [Call("delete_row") EXCEPT !.row = row]
    /\ emitted' = <<>>
    /\ UNCHANGED <<console_model, table_combo, currentTab>>

\* MainWindow.reset_database, confirmed: reset the store, refresh the viewer
reset_database_confirmed ==
    /\ db' = reset_database(db)
    /\ viewer_model' = refresh_table_viewer(viewer_model, table_combo, db')
    /\ call' = Call("reset_database")
    /\ ret' = NoResult
    /\ emitted' = <<>>
    /\ UNCHANGED <<console_model, table_combo, currentTab>>

(***************************************************************************)
(* Spec: the application                                                   *)
(***************************************************************************)
\* DatabaseManager(): connect to a new file, initialize_database
NewDatabase ==
    initialize_database(
        [tables |-> [t \in UserTables \cup ConsoleTables |-> NoTable],
         query_history |-> <<>>,
         sqlite_sequence |-> 0,
         lesson_progress |-> {},
         rowcount |-> -1,
         lastrowid |-> 0,
         uncommitted |-> FALSE])

\* MainWindow(): the viewer tab loads the first table; the Beginner tab shows
Init ==
    /\ db = NewDatabase
    /\ table_combo = get_table_names(NewDatabase)
    /\ viewer_model = refresh_table_viewer(TableModel, get_table_names(NewDatabase),
                                           NewDatabase)
    /\ console_model = TableModel
    /\ currentTab = 0
    /\ emitted = <<>>
    /\ call = NoCall
    /\ ret = NoResult

Next ==
    \/ \E index \in Tabs : on_tab_changed(index)
    \/ \E q \in Queries : execute_console_query(q)
    \/ \E row \in 1..Len(viewer_model.data), col \in 1..Len(viewer_model.columns),
          value \in RawInputs : edit_cell(row, col, value)
    \/ add_table_row
    \/ \E row \in 1..Len(viewer_model.data) : delete_table_row(row)
    \/ reset_database_confirmed

Spec == Init /\ [][Next]_vars

\* MainWindow() on the database file of an earlier session in which the
\* console created the two triggers on students
FrozenDatabase == [NewDatabase EXCEPT !.tables["students"].frozen = TRUE]

InitFrozen ==
    /\ db = FrozenDatabase
    /\ table_combo = get_table_names(FrozenDatabase)
    /\ viewer_model = refresh_table_viewer(TableModel, get_table_names(FrozenDatabase),
                                           FrozenDatabase)
    /\ console_model = TableModel
    /\ currentTab = 0
    /\ emitted = <<>>
    /\ call = NoCall
    /\ ret = NoResult

SpecFrozen == InitFrozen /\ [][Next]_vars

(***************************************************************************)
(* SpecNoPk, SpecComposite: the application on the database file of an     *)
(* earlier session whose console replaced students by a table of its own   *)
(* making, without a primary key or with a composite one.                  *)
(* initialize_database finds the table (CREATE TABLE IF NOT EXISTS) and    *)
(* its rows and leaves both alone.  TableModel.setData is also called      *)
(* without asking flags() first.                                           *)
(***************************************************************************)
UserMadeDatabase(schema) ==
    [NewDatabase EXCEPT !.tables["students"] =
        [exists |-> TRUE, schema |-> schema, rows |-> shared_key_data,
         frozen |-> FALSE]]

\* MainWindow() on such a file
InitOn(d) ==
    /\ db = d
    /\ table_combo = get_table_names(d)
    /\ viewer_model = refresh_table_viewer(TableModel, get_table_names(d), d)
    /\ console_model = TableModel
    /\ currentTab = 0
    /\ emitted = <<>>
    /\ call = NoCall
    /\ ret = NoResult

\* viewer_model.setData(index, value) whatever flags(index) says
viewer_setData(row, col, value) ==
    /\ db.sqlite_sequence < MaxHistory
    /\ LET done == setData(viewer_model, db, row, col, value) IN
       /\ viewer_model' = done.model
       /\ db' = done.db
       /\ emitted' = done.emitted
       /\ ret' = [NoResult EXCEPT !.success = done.ret, !.kind = "setData"]
    /\ call' = [Call("setData") EXCEPT !.query = "viewer_model",
                                       !.row = row, !.col = col, !.value = value]
    /\ UNCHANGED <<console_model, table_combo, currentTab>>

\* console_model.setData(index, value) on the grid of the console's results
console_setData(row, col, value) ==
    /\ db.sqlite_sequence < MaxHistory
    /\ LET done == setData(console_model, db, row, col, value) IN
       /\ console_model' = done.model
       /\ db' = done.db
       /\ emitted' = done.emitted
       /\ ret' = [NoResult EXCEPT !.success = done.ret, !.kind = "setData"]
    /\ call' = [Call("setData") EXCEPT !.query = "console_model",
                                       !.row = row, !.col = col, !.value = value]
    /\ UNCHANGED <<viewer_model, table_combo, currentTab>>

\* the console's statements in this specification
SchemaQueries == { q \in Queries : q.stmt = "select_name" }

\* the handlers that can run whatever the table's key is
NextSchemas ==
    \/ \E index \in Tabs : on_tab_changed(index)
    \/ \E q \in SchemaQueries : execute_console_query(q)
    \/ \E row \in 1..Len(viewer_model.data), col \in 1..Len(viewer_model.columns),
          value \in RawInputs : viewer_setData(row, col, value)
    \/ \E row \in 1..Len(console_model.data), col \in 1..Len(console_model.columns),
          value \in RawInputs : console_setData(row, col, value)
    \/ add_table_row
    \/ \E row \in 1..Len(viewer_model.data) : delete_table_row(row)

\* students without a primary key: no cell is editable in the view
SpecNoPk == InitOn(UserMadeDatabase(nopk_schema)) /\ [][NextSchemas]_vars

\* students with PRIMARY KEY (student_id, name): the view edits cells too
NextComposite ==
    \/ NextSchemas
    \/ \E row \in 1..Len(viewer_model.data), col \in 1..Len(viewer_model.columns),
          value \in RawInputs : edit_cell(row, col, value)

SpecComposite == InitOn(UserMadeDatabase(composite_schema)) /\ [][NextComposite]_vars

(***************************************************************************)
(* SpecDb: DatabaseManager alone, its public methods called directly       *)
(***************************************************************************)
PkValues == {IntVal(1), IntVal(2)}
\* (column_name, new_value) pairs given to update_cell
CellEdits ==
    { <<"name", TextVal("O'Brien")>>, <<"name", None>>,
      <<"age", None>>, <<"age", IntVal(21)>> }
InsertRows ==
    { <<k, TextVal(""), None>> : k \in {None, IntVal(1)} } \cup { <<None, TextVal("")>> }

CanLog == db.sqlite_sequence < MaxHistory

Ui == <<viewer_model, console_model, table_combo, currentTab, emitted>>

db_execute_query(q) ==
    /\ CanLog
    /\ LET result == execute_query(db, q) IN
       /\ db' = result.db
       /\ ret' = result.ret
    /\ call' = [Call("execute_query") EXCEPT !.query = QueryText(q)]
    /\ UNCHANGED Ui

db_update_cell(pk_value, column_name, new_value) ==
    /\ CanLog
    /\ LET result == update_cell(db, "students", "student_id", pk_value,
                                 column_name, new_value) IN
       /\ db' = result.db
       /\ ret' = result.ret
    /\ call' = [Call("update_cell") EXCEPT !.row = pk_value.n, !.value = column_name,
                                           !.args = <<pk_value, new_value>>]
    /\ UNCHANGED Ui

db_insert_row(column_values) ==
    /\ CanLog
    /\ LET result == insert_row(db, "students", column_values) IN
       /\ \A i \in 1..Len(result.db.tables["students"].rows) :
              result.db.tables["students"].rows[i][1].n <= MaxId
       /\ db' = result.db
       /\ ret' = result.ret
    /\ call' = [Call("insert_row") EXCEPT !.args = column_values]
    /\ UNCHANGED Ui

db_delete_row(pk_value) ==
    /\ CanLog
    /\ LET result == delete_row(db, "students", "student_id", pk_value) IN
       /\ db' = result.db
       /\ ret' = result.ret
    /\ call' = [Call("delete_row") EXCEPT !.row = pk_value.n, !.args = <<pk_value>>]
    /\ UNCHANGED Ui

db_reset_database ==
    /\ db' = reset_database(db)
    /\ ret' = NoResult
    /\ call' = Call("reset_database")
    /\ UNCHANGED Ui

db_mark_lesson_complete(lesson_id) ==
    /\ db' = mark_lesson_complete(db, lesson_id)
    /\ ret' = NoResult
    /\ call' = [Call("mark_lesson_complete") EXCEPT !.value = lesson_id]
    /\ UNCHANGED Ui

db_reset_lesson_progress ==
    /\ db' = reset_lesson_progress(db)
    /\ ret' = NoResult
    /\ call' = Call("reset_lesson_progress")
    /\ UNCHANGED Ui

NextDb ==
    \/ \E q \in Queries : db_execute_query(q)
    \/ \E pk_value \in PkValues, edit \in CellEdits :
          db_update_cell(pk_value, edit[1], edit[2])
    \/ \E column_values \in InsertRows : db_insert_row(column_values)
    \/ \E pk_value \in PkValues : db_delete_row(pk_value)
    \/ db_reset_database

SpecDb == Init /\ [][NextDb]_vars

\* DatabaseManager with the lesson-progress operations as well
NextLessons ==
    \/ NextDb
    \/ \E lesson_id \in LessonIds : db_mark_lesson_complete(lesson_id)
    \/ db_reset_lesson_progress

SpecLessons == Init /\ [][NextLessons]_vars

(***************************************************************************)
(* SpecManager: every public method of DatabaseManager, the read-only ones *)
(* included, on a few inputs each                                          *)
(***************************************************************************)
db_get_table_schema(table_name) ==
    /\ ret' = get_table_schema(db, table_name)
    /\ call' = [Call("get_table_schema") EXCEPT !.value = table_name]
    /\ UNCHANGED <<db, Ui>>

db_get_primary_key(table_name) ==
    /\ ret' = get_primary_key(db, table_name)
    /\ call' = [Call("get_primary_key") EXCEPT !.value = table_name]
    /\ UNCHANGED <<db, Ui>>

\* get_table_data that sends its SELECT through execute_query
db_get_table_data_logged(table_name) ==
    /\ CanLog
    /\ LET result == execute_query(db, CHOOSE q \in Queries : q.stmt = "select_name") IN
       /\ db' = result.db
       /\ ret' = result.ret
    /\ call' = [Call("get_table_data") EXCEPT !.value = table_name]
    /\ UNCHANGED Ui

db_get_table_data(table_name) ==
    /\ ret' = get_table_data(db, table_name)
    /\ call' = [Call("get_table_data") EXCEPT !.value = table_name]
    /\ UNCHANGED <<db, Ui>>

db_get_table_names ==
    /\ ret' = [NoResult EXCEPT !.success = TRUE, !.kind = "names",
                               !.rows = get_table_names(db)]
    /\ call' = Call("get_table_names")
    /\ UNCHANGED <<db, Ui>>

db_get_query_history(limit) ==
    /\ ret' = [NoResult EXCEPT !.success = TRUE, !.kind = "history",
                               !.rows = get_query_history(db, limit)]
    /\ call' = [Call("get_query_history") EXCEPT !.row = limit]
    /\ UNCHANGED <<db, Ui>>

\* the limits update_query_history and the tests of the log use
HistoryLimits == {1, 20}

\* the console statements that read, drop, empty the log and fail half-way
ManagerQueries ==
    { q \in Queries :
        q.stmt \in {"select_name", "drop_students", "delete_history", "update_or_fail"} }

NextManager ==
    \/ \E q \in ManagerQueries : db_execute_query(q)
    \/ db_update_cell(IntVal(1), "age", IntVal(21))
    \/ \E column_values \in InsertRows : db_insert_row(column_values)
    \/ db_delete_row(IntVal(1))
    \/ db_reset_database
    \/ \E lesson_id \in LessonIds : db_mark_lesson_complete(lesson_id)
    \/ db_reset_lesson_progress
    \/ \E table_name \in UserTables :
          \/ db_get_table_schema(table_name)
          \/ db_get_primary_key(table_name)
          \/ db_get_table_data(table_name)
    \/ db_get_table_names
    \/ \E limit \in HistoryLimits : db_get_query_history(limit)

SpecManager == Init /\ [][NextManager]_vars

(***************************************************************************)
(* SpecTables: DatabaseManager with a console that creates and drops       *)
(* tables, and the table list read after it                                *)
(***************************************************************************)
TableQueries ==
    CreateQueries \cup { q \in Queries : q.stmt \in {"drop_students", "select_name"} }

NextTables ==
    \/ \E q \in TableQueries : db_execute_query(q)
    \/ db_reset_database
    \/ db_get_table_names
    \/ \E table_name \in UserTables \cup ConsoleTables : db_get_table_data(table_name)

SpecTables == Init /\ [][NextTables]_vars

(***************************************************************************)
(* TableModel._validate_value called on its own: one column schema in      *)
(* self._schema, one raw input (NoName is Python's None)                   *)
(***************************************************************************)
CoerceInputs == RawInputs \cup {NoName, "2.5", "7"}
CoerceTypes ==
    {"INTEGER", "integer", "INT", "POINT", "REAL", "real", "FLOAT", "DOUBLE", "TEXT"}
ColumnSchemas == { Column(0, "c", t, n, 0) : t \in CoerceTypes, n \in {0, 1} }

coerce(value, column_schema) ==
    /\ viewer_model' = [TableModel EXCEPT !.schema = <<column_schema>>,
                                          !.columns = <<"c">>]
    /\ call' = [Call("validate_value") EXCEPT !.value = value]
    /\ ret' = validate_value(value, SchemaGet(viewer_model'.schema, "c"))
    /\ UNCHANGED <<db, console_model, table_combo, currentTab, emitted>>

\* the schemas add_table_row may meet: key or not, with or without a default
DefaultSchemas ==
    { [Column(0, "c", t, n, pk) EXCEPT !.default = dflt] :
          t \in CoerceTypes, n \in {0, 1}, pk \in {0, 1}, dflt \in {None, TextVal("5")} }

\* the default-value loop of add_table_row on one column
default_value(column_schema) ==
    /\ viewer_model' = [TableModel EXCEPT !.schema = <<column_schema>>,
                                          !.columns = <<"c">>]
    /\ call' = Call("default_value")
    /\ ret' = [value |-> DefaultValue(column_schema), error |-> NoName]
    /\ UNCHANGED <<db, console_model, table_combo, currentTab, emitted>>

NextCoerce ==
    \/ \E value \in CoerceInputs, cs \in ColumnSchemas : coerce(value, cs)
    \/ \E cs \in DefaultSchemas : default_value(cs)

SpecCoerce == Init /\ [][NextCoerce]_vars

(***************************************************************************)
(* Properties of the grid (checked under Spec)                             *)
(***************************************************************************)
\* the latest handler was setData on cell (call.row, call.col)
Edited == call.op = "setData"

\* rows of the bound table whose key is the key of grid row `row`
StoreRows(m, d, row) ==
    LET t == d.tables[m.table_name]
        k == IndexOf(ColumnNames(t.schema), m.pk_column)
    IN  IF ~t.exists \/ k = 0 THEN <<>>
        ELSE SelectSeq(t.rows, LAMBDA r : r[k] = m.data[row][m.pk_index])

\* what _validate_value makes of the input of the latest edit
Coerced(m) ==
    validate_value(call.value, SchemaGet(m.schema, m.columns[call.col]))

\* C1: whenever setData on the bound grid returns True, the store row with
\* the grid row's primary-key value holds the coerced value in the edited
\* column, and so does the grid cell.
C1_SuccessfulEditReachesStore ==
    (Edited /\ ret.success) =>
        LET m == viewer_model
            stored == StoreRows(m, db, call.row)
            c == IndexOf(ColumnNames(db.tables[m.table_name].schema),
                         m.columns[call.col])
        IN  /\ m.data[call.row][call.col] = Coerced(m).value
            /\ Len(stored) = 1
            /\ stored[1][c] = Coerced(m).value

\* C2: an edit that returns False, at coercion or at the store, leaves every
\* grid row as it was and leaves the stored tables as they were.
C2_FailedEditChangesNothing ==
    [][(call'.op = "setData" /\ ~ret'.success)
          => /\ viewer_model' = viewer_model
             /\ db'.tables = db.tables]_vars

\* C2 witness: an edit was refused by the store itself
C2_Witness_StoreRefusedEdit ==
    /\ Edited /\ ~ret.success
    /\ emitted = <<"ERROR: no such table: students">>

\* the input of an edit differs from the cell and fails _validate_value
CoercionFails(m, row, col, value) ==
    /\ Str(m.data[row][col]) # value
    /\ validate_value(value, SchemaGet(m.schema, m.columns[col])).error # NoName

\* C3: when coercion fails, nothing is sent to the store (the DatabaseManager
\* state, history included, is untouched), the grid is unchanged, and exactly
\* one event, the validation error, is emitted.
C3_CoercionFailureStaysLocal ==
    [][(call'.op = "setData"
        /\ CoercionFails(viewer_model, call'.row, call'.col, call'.value))
          => /\ db' = db
             /\ viewer_model' = viewer_model
             /\ ~ret'.success
             /\ emitted' = <<"ERROR: " \o
                    validate_value(call'.value,
                        SchemaGet(viewer_model.schema,
                                  viewer_model.columns[call'.col])).error>>]_vars

\* C3 witness: a non-numeric input for the INTEGER column age was refused
C3_Witness_TypeMismatch ==
    /\ Edited
    /\ call.value = "abc"
    /\ emitted = <<"ERROR: Invalid INTEGER value: 'abc'">>

\* C4: the grid is never ahead of the store: a cell value that a successful
\* edit put into the bound grid is a value the store holds for that key.
C4_GridNeverAheadOfStore ==
    (Edited /\ ret.success) =>
        \E i \in 1..Len(StoreRows(viewer_model, db, call.row)) :
            \E c \in 1..Len(StoreRows(viewer_model, db, call.row)[i]) :
                StoreRows(viewer_model, db, call.row)[i][c]
                    = viewer_model.data[call.row][call.col]

(***************************************************************************)
(* Properties of DatabaseManager (checked under SpecDb)                    *)
(***************************************************************************)
History == db.query_history
Newest(h) == h[Len(h)]

\* the statement of the latest execute_query call
QueryOf(text) == CHOOSE q \in Queries : QueryText(q) = text

\* C5: every execute_query call, successful or not, appends exactly one
\* history entry carrying its text and outcome: the history is one longer.
C5_ExecuteAppendsOneEntry ==
    [][call'.op = "execute_query"
          => /\ Len(History') = Len(History) + 1
             /\ Newest(History').query_text = call'.query
             /\ Newest(History').success = (IF ret'.success THEN 1 ELSE 0)
             /\ Newest(History').error_message
                    = (IF ret'.success THEN NoName ELSE ret'.error)]_vars

\* C6: a store failure in execute_query, update_cell, insert_row or
\* delete_row is returned with the store's message and recorded as exactly
\* one history entry with success = 0 and that message.
C6_StoreFailureIsRecorded ==
    [][(call'.op \in {"execute_query", "update_cell", "insert_row", "delete_row"}
        /\ ret'.kind = "error")
          => /\ Len(History') = Len(History) + 1
             /\ Newest(History').success = 0
             /\ Newest(History').error_message = ret'.error]_vars

\* C7: except in a reset, no operation edits or removes a history entry
\* that was already written.
C7_HistoryIsAppendOnly ==
    [][call'.op # "reset_database"
          => /\ Len(History') >= Len(History)
             /\ \A i \in 1..Len(History) : History'[i] = History[i]]_vars

\* C8: for every limit N, get_query_history(N) is the min(N, total) newest
\* entries, newest first, the exact reverse of the order of appending.
C8_RecentIsNewestFirst ==
    \A N \in 0..(MaxHistory + 1) :
        get_query_history(db, N)
            = [i \in 1..Min(N, Len(History)) |->
                  HistoryTuple(History[Len(History) + 1 - i])]

\* C8 witness: two entries are logged, and the newer one is returned first
C8_Witness_TwoEntries ==
    /\ Len(History) >= 2
    /\ History[1].query_text # History[2].query_text
    /\ get_query_history(db, 1) = <<HistoryTuple(History[Len(History)])>>

\* C9: execute_query returns rows exactly when the text, leading whitespace
\* and case aside, starts with SELECT and the store gave result metadata; a
\* message for every other statement the store ran; an error otherwise.
C9_OutcomeVariant ==
    [][call'.op = "execute_query"
          => LET q == QueryOf(call'.query)
                 store == SqliteExecute(db, q.stmt)
                 select == q.kw \in {"select", "SELECT"}
             IN  /\ ret'.kind \in {"rows", "message", "error"}
                 /\ (ret'.kind = "rows") <=> (store.ok /\ select /\ store.described)
                 /\ (ret'.kind = "message")
                        <=> (store.ok /\ ~(select /\ store.described))
                 /\ (ret'.kind = "error") <=> ~store.ok
                 /\ ret'.success <=> store.ok
                 /\ ret'.kind = "rows"
                        => ret'.columns = store.columns /\ ret'.rows = store.rows
                 /\ ret'.kind = "error" => ret'.error = store.error]_vars

\* C9 witness: a lower-case select behind leading whitespace returned rows
C9_Witness_LowerCaseSelect ==
    /\ call.op = "execute_query"
    /\ call.query = "  select name from students"
    /\ ret.kind = "rows"

\* rows a DELETE statement removes from the store
RowsChanged(d, stmt) ==
    IF stmt = "delete_students" THEN Len(d.tables["students"].rows)
    ELSE Len(d.query_history)

\* C10: the message of a successful DELETE reports the number of rows the
\* statement removed.
C10_RowsAffectedIsTheStatementCount ==
    [][(call'.op = "execute_query" /\ ret'.kind = "message"
        /\ QueryOf(call'.query).stmt \in {"delete_students", "delete_history"})
          => ret'.message = "Query executed successfully. Rows affected: "
                 \o ToString(RowsChanged(db, QueryOf(call'.query).stmt))]_vars

\* C11: when the store rejects a statement given to execute_query, every
\* table other than the history is as before the call, the result is the
\* failure carrying the store's error text, and the history gained exactly
\* one entry.
C11_RejectedStatementCommitsNothing ==
    [][(call'.op = "execute_query" /\ ~SqliteExecute(db, QueryOf(call'.query).stmt).ok)
          => /\ db'.tables = db.tables
             /\ db'.lesson_progress = db.lesson_progress
             /\ ret'.kind = "error"
             /\ ret'.error = SqliteExecute(db, QueryOf(call'.query).stmt).error
             /\ Len(History') = Len(History) + 1]_vars

(***************************************************************************)
(* Properties of the value coercer (checked under SpecCoerce)              *)
(***************************************************************************)
Coercing == call.op = "validate_value"

\* the declared types that carry an integer marker, a floating-point marker
IntegerMarked == {"INTEGER", "integer", "INT", "POINT"}
FloatMarked == {"REAL", "real", "FLOAT", "DOUBLE"}

\* C12: the coercer applies its rules in a fixed order: (1) empty or null
\* input is refused on a not-null column and is null otherwise; (2) an
\* integer-marked type gives the parsed integer or an INTEGER mismatch;
\* (3) a float-marked type gives the parsed real or a REAL mismatch;
\* (4) otherwise the input unchanged.  Nothing else changes.
C12_CoerceRuleOrder ==
    Coercing =>
        LET v == call.value
            cs == viewer_model.schema[1]
        IN  /\ db = NewDatabase
            /\ IF v \in {"", NoName}
               THEN ret = [value |-> None,
                           error |-> IF cs.notnull = 1
                                     THEN "Column cannot be NULL" ELSE NoName]
               ELSE IF cs.type \in IntegerMarked
               THEN IF v \in {"21", "7"}
                    THEN ret = [value |-> IntVal(IF v = "21" THEN 21 ELSE 7),
                                error |-> NoName]
                    ELSE ret = [value |-> None,
                                error |-> "Invalid INTEGER value: '" \o v \o "'"]
               ELSE IF cs.type \in FloatMarked
               THEN IF v \in {"21", "7", "2.5"}
                    THEN ret.error = NoName /\ ret.value.tag = "real"
                         /\ ret.value.n = (CASE v = "21" -> 210 [] v = "7" -> 70
                                             [] OTHER -> 25)
                    ELSE ret = [value |-> None,
                                error |-> "Invalid REAL/FLOAT value: '" \o v \o "'"]
               ELSE ret = [value |-> TextVal(v), error |-> NoName]

\* C12 witness: an empty input on a not-null integer column is refused by
\* rule (1), not by the integer rule
C12_Witness_EmptyBeforeType ==
    /\ Coercing
    /\ call.value = ""
    /\ viewer_model.schema[1].type = "INTEGER"
    /\ viewer_model.schema[1].notnull = 1
    /\ ret.error = "Column cannot be NULL"

(***************************************************************************)
(* Properties of the synthesized statements                                *)
(***************************************************************************)
\* a value as the display SQL is to show it
DisplayLiteral(v) == IF v = None THEN "NULL" ELSE "'" \o Str(v) \o "'"

\* C13: the display SQL of a single-cell UPDATE, as emitted to the UI and
\* logged to the history, shows a non-null new value as a quoted literal and
\* a null new value as the keyword NULL (SET <column> = NULL).
C13_UpdateDisplaysNullKeyword ==
    [][(call'.op = "setData" /\ ret'.success)
          => LET m == viewer_model
                 column_name == m.columns[call'.col]
                 v == validate_value(call'.value,
                                     SchemaGet(m.schema, column_name)).value
                 sql == "UPDATE " \o m.table_name \o " SET " \o column_name
                        \o " = " \o DisplayLiteral(v) \o " WHERE " \o m.pk_column
                        \o " = " \o Str(m.data[call'.row][m.pk_index])
             IN  /\ emitted' = <<sql>>
                 /\ Newest(History').query_text = sql]_vars

QuotedLiteralParses(x) == x # "O'Brien"

\* what SQLite reads from the display form of a value: NULL, or a text literal
Denoted(literal_of) == IF literal_of = None THEN None ELSE TextVal(Str(literal_of))

\* running the display SQL of update_cell as a statement of its own
RerunUpdate(d, pk_value, column_name, new_value) ==
    IF ~QuotedLiteralParses(Str(new_value))
    THEN Raised(d, "near \"Brien\": syntax error")
    ELSE IF pk_value.tag # "int"
    THEN Raised(d, "no such column: " \o Str(pk_value))
    ELSE SqliteUpdate(d, "students", column_name, TextVal(Str(new_value)),
                      "student_id", pk_value)

\* running the display SQL of insert_row
RerunInsert(d, column_values) ==
    IF \E i \in 1..Len(column_values) : ~QuotedLiteralParses(Str(column_values[i]))
    THEN Raised(d, "near \"Brien\": syntax error")
    ELSE SqliteInsert(d, "students", ColumnNames(d.tables["students"].schema),
                      [i \in 1..Len(column_values) |-> Denoted(column_values[i])])

\* running the display SQL of delete_row
RerunDelete(d, pk_value) ==
    IF pk_value.tag # "int"
    THEN Raised(d, "no such column: " \o Str(pk_value))
    ELSE SqliteDelete(d, "students", "student_id", pk_value)

\* C15: the display SQL logged for a successful update_cell, insert_row or
\* delete_row can be run as it stands and, from the same store, leaves the
\* tables as the executed parameterized statement left them.
C15_DisplaySqlDenotesTheMutation ==
    [][(call'.op \in {"update_cell", "insert_row", "delete_row"} /\ ret'.success)
          => LET again ==
                    CASE call'.op = "update_cell" ->
                            RerunUpdate(db, call'.args[1], call'.value, call'.args[2])
                      [] call'.op = "insert_row" -> RerunInsert(db, call'.args)
                      [] OTHER -> RerunDelete(db, call'.args[1])
             IN  /\ again.ok
                 /\ again.db.tables = db'.tables]_vars

(***************************************************************************)
(* Properties of the default row (checked under SpecCoerce)                *)
(***************************************************************************)
\* C16: the default value of a column is given by the first rule that
\* applies: an INTEGER primary key gives null; a declared default gives that
\* default; a nullable column gives null; an integer type gives 0; a type
\* the coercer reads as floating-point gives 0.0; anything else gives ''.
C16_DefaultValueRules ==
    call.op = "default_value" =>
        LET cs == viewer_model.schema[1] IN
        ret.value =
            IF cs.pk = 1 /\ cs.type \in {"INTEGER", "integer"} THEN None
            ELSE IF cs.default # None THEN cs.default
            ELSE IF cs.notnull = 0 THEN None
            ELSE IF cs.type \in IntegerMarked THEN IntVal(0)
            ELSE IF cs.type \in FloatMarked THEN RealVal(0)
            ELSE TextVal("")

(***************************************************************************)
(* Properties of adding and deleting rows (checked under SpecFrozen, where *)
(* the store refuses inserts and deletes until the table is rebuilt)       *)
(***************************************************************************)
Keys(rows) == {rows[i][1] : i \in 1..Len(rows)}

\* C17: a successful add_table_row on students gives no key value, the store
\* assigns a key no existing row has, and the grid is fetched again: it holds
\* exactly the store's rows, one more than before, the new one carrying the
\* generated key.  When the insert fails the grid's rows are unchanged.
C17_AddRowRefetchesGrid ==
    [][call'.op = "insert_row"
          => LET old == db.tables["students"].rows
                 new == db'.tables["students"].rows
             IN  IF ret'.success
                 THEN /\ call'.args[1] = None
                      /\ Len(new) = Len(old) + 1
                      /\ \E n \in 1..Len(new) :
                            /\ new[n][1].tag = "int"
                            /\ new[n][1] \notin Keys(old)
                            /\ [i \in 1..Len(old) |->
                                   IF i < n THEN new[i] ELSE new[i + 1]] = old
                      /\ viewer_model'.data = new
                      /\ Len(viewer_model'.data) = Len(viewer_model.data) + 1
                 ELSE /\ viewer_model'.data = viewer_model.data
                      /\ new = old]_vars

\* C17 witness: the added row is in the grid with the key the store gave it
C17_Witness_GeneratedKeyShown ==
    /\ call.op = "insert_row"
    /\ ret.success
    /\ Len(viewer_model.data) = 2
    /\ viewer_model.data[2][1] = IntVal(2)

Refreshed == call.op = "on_tab_changed" /\ call.row = 2 /\ table_combo # <<>>

C20_NoEditOnStaleBinding ==
    [][(call'.op = "setData" /\ History' # History)
          => LET m == viewer_model
                 t == db.tables[m.table_name]
             IN  /\ t.exists
                 /\ m.schema = t.schema
                 /\ m.columns = ColumnNames(t.schema)
                 /\ m.pk_column = get_primary_key(db, m.table_name).pk_column
                 /\ m.data = t.rows]_vars

(***************************************************************************)
(* Properties of DatabaseManager's methods (checked under SpecManager)     *)
(***************************************************************************)
\* the method that just returned and the table it was asked about
Described == call.op = "get_table_schema"

\* C21: describing a table that the store does not hold (it was dropped from
\* the console) fails with a not-found error; it never succeeds with an
\* empty schema.
C21_MissingTableIsNotFound ==
    [][(Described' /\ ~db.tables[call'.value].exists)
          => /\ ~ret'.success
             /\ ret'.error = NoSuchTable(call'.value)]_vars

\* C26: when a public method of DatabaseManager has returned, the store
\* holds no change that is not committed: every statement that wrote was
\* followed by a commit before the method returned.
C26_NothingLeftUncommitted == ~db.uncommitted

\* C26 witness: UPDATE OR FAIL stopped at its second row; the change of the
\* first row was committed with the history entry before execute_query returned
C26_Witness_FailedHalfWayCommitted ==
    /\ call.op = "execute_query"
    /\ ~ret.success
    /\ ret.error = "UNIQUE constraint failed: students.student_id"
    /\ Newest(History).success = 0
    /\ ~db.uncommitted

ReadOnlyOps ==
    {"get_table_schema", "get_primary_key", "get_table_data", "get_table_names",
     "get_query_history"}

\* C28: describing a table's schema or primary key, fetching a table's rows,
\* listing the user tables and reading the recent history change no table,
\* no lesson progress and no history entry.
C28_ReadsChangeNothing ==
    [][call'.op \in ReadOnlyOps
          => /\ db'.tables = db.tables
             /\ db'.lesson_progress = db.lesson_progress
             /\ History' = History
             /\ db'.sqlite_sequence = db.sqlite_sequence]_vars

\* C28 witness: the recent history was read from a store that holds history
\* entries, a completed lesson and a changed students table
C28_Witness_HistoryRead ==
    /\ call.op = "get_query_history"
    /\ ret.rows # <<>>
    /\ Len(History) >= 2
    /\ db.lesson_progress # {}
    /\ db.tables["students"].rows # students_data

\* the row of students that the step put there
InsertedRows ==
    { r \in {db'.tables["students"].rows[i] : i \in 1..Len(db'.tables["students"].rows)} :
        \A i \in 1..Len(db.tables["students"].rows) : db.tables["students"].rows[i] # r }

\* C30: the rowid a successful insert_row returns is the key the store gave
\* the row it inserted into the target table.
C30_RowidIsTheInsertedRowsKey ==
    [][(call'.op = "insert_row" /\ ret'.success)
          => \E r \in InsertedRows : ret'.rowid = r[1].n]_vars

(***************************************************************************)
(* Properties of a grid without a binding (checked under SpecNoPk)         *)
(***************************************************************************)
\* the grid setData was called on has no binding: it is the console's grid,
\* filled by update_data, or the viewer's grid on a table without a key
OnUnboundGrid ==
    /\ call.op = "setData"
    /\ \/ call.query = "console_model"
       \/ call.query = "viewer_model" /\ ~get_primary_key(db, "students").success

\* C22: on a grid without a binding every setData is rejected: it returns
\* False, no statement reaches the store, the history log gets no entry and
\* no cell of either grid changes.
C22_UnboundGridRejectsEdits ==
    [][OnUnboundGrid'
          => /\ ~ret'.success
             /\ db' = db
             /\ History' = History
             /\ viewer_model' = viewer_model
             /\ console_model' = console_model]_vars

\* C22 witness: setData was called on a cell of the viewer's grid, which
\* shows the rows of a table whose bind found no primary key
C22_Witness_NoKeyGridEdit ==
    /\ OnUnboundGrid
    /\ call.query = "viewer_model"
    /\ viewer_model.table_name = "students"
    /\ viewer_model.pk_column = NoName
    /\ viewer_model.data # <<>>
    /\ ~ret.success

(***************************************************************************)
(* Properties of the key column and of unchanged input (checked under Spec) *)
(***************************************************************************)
\* the grid is bound and its key column is the table's INTEGER PRIMARY KEY
KeyIsRowid(m) ==
    /\ m.db /\ m.table_name # NoName /\ m.pk_column # NoName
    /\ m.pk_index # 0
    /\ RowidAlias(m.schema) = m.pk_index

C29_SameTextIsNoOp ==
    [][(Edited' /\ Str(viewer_model.data[call'.row][call'.col]) = call'.value)
          => /\ ~ret'.success
             /\ db' = db
             /\ History' = History
             /\ emitted' = <<>>
             /\ viewer_model' = viewer_model]_vars

\* C29 witness: the name cell of an added row holds '' and the editor
\* committed '' again, an input that coercion would have refused for the
\* NOT NULL column; nothing was emitted
C29_Witness_EmptyNameAgain ==
    /\ Edited
    /\ call.value = ""
    /\ viewer_model.columns[call.col] = "name"
    /\ viewer_model.data[call.row][call.col] = TextVal("")
    /\ ~ret.success
    /\ emitted = <<>>

(***************************************************************************)
(* Properties of a composite primary key (checked under SpecComposite)     *)
(***************************************************************************)
\* the number of rows of students that differ before and after the step
\* (for an UPDATE), or that are gone (for a DELETE)
RowsTouched(before, after) ==
    IF Len(after) = Len(before)
    THEN Cardinality({i \in 1..Len(before) : after[i] # before[i]})
    ELSE Len(before) - Len(after)

\* C24: on a table whose primary key has more than one column, an edit of
\* one cell or the deletion of one row never runs a statement addressed by
\* the first key column only: it changes or removes at most the one row of
\* the grid it was asked for.
C24_CompositeKeyTouchesOneRow ==
    [][(call'.op \in {"setData", "delete_row"}
          /\ Cardinality(PkColumns(db.tables["students"].schema)) > 1)
          => RowsTouched(db.tables["students"].rows,
                         db'.tables["students"].rows) <= 1]_vars

(***************************************************************************)
(* Properties of the table list (checked under SpecTables)                 *)
(***************************************************************************)
\* the tables the store holds besides query_history and lesson_progress
TablesPresent == {t \in DOMAIN db.tables : db.tables[t].exists}

\* C25: get_table_names returns exactly the tables the store holds besides
\* the two bookkeeping tables, and never query_history or lesson_progress.
C25_ListsExactlyTheUserTables ==
    [][call'.op = "get_table_names"
          => LET names == ret'.rows IN
             /\ {names[i] : i \in 1..Len(names)} = TablesPresent
             /\ \A i \in 1..Len(names) :
                   names[i] \notin {"query_history", "lesson_progress"}]_vars

====
